---------------------------- MODULE Spec2Model ----------------------------
(***************************************************************************)
(* A model of app.py, the Excel cleaning and validation tool: the pure     *)
(* functions normalize_columns, clean_data and validate_data, the report   *)
(* assembly, and the Streamlit script that drives them, one script         *)
(* execution per user interaction.                                         *)
(*                                                                         *)
(* A string is a sequence of one-character strings.  A cell is a record    *)
(* [k, s, n]: k = "str" carries the characters s, k = "num" the number n   *)
(* (any non-string scalar: a number, a date), k = "nan" is the missing     *)
(* value read_excel and the .str methods produce (NaN), k = "NA" the one   *)
(* line 33 writes (pd.NA).  A DataFrame is a record with its column        *)
(* labels, the dtype of each column, its index (the row labels, which      *)
(* drop_duplicates keeps) and its rows.  The pandas modelled is 1.5 to     *)
(* 2.x: string columns are of dtype object.                                *)
(***************************************************************************)
EXTENDS Integers, Sequences, FiniteSets, TLC

VARIABLES
    uploaded_file,      \* the file_uploader widget's value (line 78)
    proceed,            \* st.session_state.proceed (lines 80-81, 90)
    selection,          \* the multiselect widget's kept options and value (line 97)
    button_shown,       \* the confirmation button was rendered by the last run
    select_shown,       \* the multiselect was rendered by the last run
    pc,                 \* position of the running script ("idle" between runs)
    clicked,            \* st.button's return value in this run (line 89)
    raw_df,             \* the script's raw_df (lines 84, 94)
    required_columns,   \* the script's required_columns (line 97)
    issues,             \* the script's issues (line 106)
    cleaned_df,         \* the script's cleaned_df (line 118)
    report,             \* the script's report (lines 130-134)
    exc,                \* the exception that ended this run, "" if none
    again               \* clean_data applied to the table in cleaned_df

vars == <<uploaded_file, proceed, selection, button_shown, select_shown, pc,
          clicked, raw_df, required_columns, issues, cleaned_df, report, exc,
          again>>

---------------------------------------------------------------------------
(* Bounds of the model. *)

MaxRows == 3
MaxCols == 2
MaxCells == 4
MaxLabelLen == 2
MaxLabelCols == 2
MaxReq == 2
ShellMaxRows == 2
ShellMaxCols == 2
ShellMaxCells == 2

---------------------------------------------------------------------------
(* Strings. *)

\* str.strip() with no argument removes these from both ends
Whitespace == {" ", "\t", "\n"}

RECURSIVE lstrip(_)
lstrip(s) ==
    IF s = <<>> THEN s
    ELSE IF Head(s) \in Whitespace THEN lstrip(Tail(s)) ELSE s

RECURSIVE rstrip(_)
rstrip(s) ==
    IF s = <<>> THEN s
    ELSE IF s[Len(s)] \in Whitespace THEN rstrip(SubSeq(s, 1, Len(s) - 1)) ELSE s

strip(s) == rstrip(lstrip(s))

\* str.lower(), on the letters the model's labels use
lower_char(c) ==
    CASE c = "A" -> "a"
      [] c = "B" -> "b"
      [] c = "D" -> "d"
      [] OTHER -> c

lower(s) == [i \in 1..Len(s) |-> lower_char(s[i])]

\* str.replace(" ", "_")
replace_space(s) == [i \in 1..Len(s) |-> IF s[i] = " " THEN "_" ELSE s[i]]

Digits == <<"0", "1", "2", "3", "4", "5", "6", "7", "8", "9">>

\* str(n) of a non-negative integer, as characters
RECURSIVE decimal(_)
decimal(n) ==
    IF n < 10 THEN <<Digits[n + 1]>>
    ELSE decimal(n \div 10) \o <<Digits[(n % 10) + 1]>>

\* the characters of s as one string value (what an f-string interpolates)
RECURSIVE text(_)
text(s) == IF s = <<>> THEN "" ELSE Head(s) \o text(Tail(s))

---------------------------------------------------------------------------
(* Cells, labels and DataFrames. *)

StrCell(s) == [k |-> "str", s |-> s, n |-> 0]
NumCell(n) == [k |-> "num", s |-> <<>>, n |-> n]
NaN == [k |-> "nan", s |-> <<>>, n |-> 0]
PdNA == [k |-> "NA", s |-> <<>>, n |-> 0]

\* Series.isna() on one element
isna(cell) == cell.k \in {"nan", "NA"}

\* read_excel: a column holding a string is object; with no rows it is
\* object too; numbers and blanks alone make float64
read_dtype(cells) ==
    IF Len(cells) = 0 \/ \E i \in 1..Len(cells) : cells[i].k = "str"
    THEN "object" ELSE "float64"

column_cells(rows, c) == [r \in 1..Len(rows) |-> rows[r][c]]

\* the DataFrame read_excel returns: RangeIndex, dtypes inferred per column
read_excel(labels, rows) ==
    [tag |-> "DataFrame",
     columns |-> labels,
     dtypes |-> [c \in 1..Len(labels) |-> read_dtype(column_cells(rows, c))],
     index |-> [r \in 1..Len(rows) |-> r - 1],
     rows |-> rows]

Undefined == [tag |-> "undefined", columns |-> <<>>, dtypes |-> <<>>,
              index |-> <<>>, rows |-> <<>>]
NoFile == [Undefined EXCEPT !.tag = "none"]
CorruptFile == [Undefined EXCEPT !.tag = "corrupt"]

\* what a call gave: the value it returned, or the exception it raised
Returned(v) == [exc |-> "", value |-> v]
Raised(e, v) == [exc |-> e, value |-> v]
\* the multiselect widget with no kept value
NoSelection == [options |-> <<>>, value |-> <<>>]

NotCalled == Raised("not called", Undefined)
NoIssues == Raised("not called", <<>>)

---------------------------------------------------------------------------
(* normalize_columns, lines 9-18. *)

\* Index.astype(str): a string label as it is, a number as its digits
astype_str(label) == IF label.k = "num" THEN decimal(label.n) ELSE label.s

normalize_label(label) ==
    StrCell(replace_space(lower(strip(astype_str(label)))))

normalize_columns(df) ==
    [df EXCEPT !.columns = [c \in 1..Len(@) |-> normalize_label(@[c])]]

---------------------------------------------------------------------------
(* clean_data, lines 21-39. *)

\* how many columns carry this label: df[col] is a Series only when it is 1
label_count(df, label) ==
    Cardinality({c \in 1..Len(df.columns) : df.columns[c] = label})

\* select_dtypes(include="object")
select_dtypes_object(df) == {c \in 1..Len(df.columns) : df.dtypes[c] = "object"}

\* the .str accessor refuses a column whose values are all non-strings
str_accessor_ok(cells) ==
    \/ \E i \in 1..Len(cells) : cells[i].k = "str"
    \/ \A i \in 1..Len(cells) : isna(cells[i])

\* Series.str.strip() on one element: a string is stripped, a missing value
\* stays as it is, and any other value comes back as NaN
str_strip(cell) ==
    IF cell.k = "str" THEN StrCell(strip(cell.s))
    ELSE IF isna(cell) THEN cell ELSE NaN

\* Series.replace("", pd.NA) on one element
replace_empty(cell) ==
    IF cell.k = "str" /\ cell.s = <<>> THEN PdNA ELSE cell

\* the chain of lines 30-34 on one element, in the wrong order
clean_cell_replace_first(cell) == str_strip(replace_empty(cell))

\* the chain of lines 30-34 on one element: strip, then "" to missing
clean_cell(cell) == replace_empty(str_strip(cell))

\* the loop of lines 29-34 on the rows, for the object columns
strip_object_columns(df) ==
    [df EXCEPT !.rows =
        [r \in 1..Len(@) |->
            [c \in 1..Len(df.columns) |->
                IF c \in select_dtypes_object(df)
                THEN clean_cell(@[r][c])
                ELSE @[r][c]]]]

\* factorize gives two cells of a column the same code: equal values, or
\* both missing (every missing value gets the sentinel code)
same_code(a, b) == a = b \/ (isna(a) /\ isna(b))

\* DataFrame.duplicated(): a row is marked when an earlier row equals it in
\* every column.  A frame of one column takes Series.duplicated, whose hash
\* table keeps NaN and pd.NA apart; otherwise the columns are factorized
same_row(df, q, r) ==
    IF Len(df.columns) = 1 THEN df.rows[q] = df.rows[r]
    ELSE \A c \in 1..Len(df.columns) : same_code(df.rows[q][c], df.rows[r][c])

duplicated(df) ==
    [r \in 1..Len(df.rows) |-> \E q \in 1..(r - 1) : same_row(df, q, r)]

RECURSIVE keep_positions(_, _)
keep_positions(mask, r) ==
    IF r > Len(mask) THEN <<>>
    ELSE (IF mask[r] THEN <<>> ELSE <<r>>) \o keep_positions(mask, r + 1)

\* df.drop_duplicates() with its result not assigned
drop_duplicates_not_assigned(df) == df

\* DataFrame.drop_duplicates(): keep="first", the index kept
drop_duplicates(df) ==
    LET keep == keep_positions(duplicated(df), 1)
    IN  [df EXCEPT !.index = [i \in 1..Len(keep) |-> df.index[keep[i]]],
                   !.rows = [i \in 1..Len(keep) |-> df.rows[keep[i]]]]

clean_data(df) ==
    LET n == normalize_columns(df)
        obj == select_dtypes_object(n)
    IN  IF \E c \in obj : label_count(n, n.columns[c]) > 1
        THEN Raised("AttributeError", Undefined)  \* df[col] is a DataFrame
        ELSE IF \E c \in obj : ~str_accessor_ok(column_cells(n.rows, c))
        THEN Raised("AttributeError", Undefined)  \* .str on non-string values
        ELSE Returned(drop_duplicates(strip_object_columns(n)))

---------------------------------------------------------------------------
(* validate_data, lines 42-59. *)

is_column(df, name) ==
    \E c \in 1..Len(df.columns) : df.columns[c] = StrCell(name)

\* df.duplicated().sum()
dup_count(df) ==
    Cardinality({r \in 1..Len(df.rows) : duplicated(df)[r]})

\* df[col].isna().sum(), for a label carried by one column
missing_count(df, name) ==
    LET c == CHOOSE c \in 1..Len(df.columns) : df.columns[c] = StrCell(name)
    IN  Cardinality({r \in 1..Len(df.rows) : isna(df.rows[r][c])})

duplicate_issue(n) == text(decimal(n)) \o " duplicate rows found"
missing_column_issue(name) == "Missing required column: " \o text(name)
missing_values_issue(name, n) ==
    "Column '" \o text(name) \o "' has " \o text(decimal(n)) \o " missing values"

\* the body of the loop of lines 51-57 for one name
column_issues(df, name) ==
    IF ~is_column(df, name) THEN <<missing_column_issue(name)>>
    ELSE IF missing_count(df, name) > 0
    THEN <<missing_values_issue(name, missing_count(df, name))>>
    ELSE <<>>

RECURSIVE required_issues(_, _)
required_issues(df, req) ==
    IF req = <<>> THEN <<>>
    ELSE column_issues(df, Head(req)) \o required_issues(df, Tail(req))

\* the first name of the list on which line 56 raises: df[col] is a
\* DataFrame, its count a Series, and "if" on a Series is a ValueError
raises_on(df, req) ==
    \E i \in 1..Len(req) :
        is_column(df, req[i]) /\ label_count(df, StrCell(req[i])) > 1

validate_data(df, req) ==
    IF raises_on(df, req) THEN Raised("ValueError", <<>>)
    ELSE Returned((IF dup_count(df) > 0 THEN <<duplicate_issue(dup_count(df))>>
                   ELSE <<>>) \o required_issues(df, req))

---------------------------------------------------------------------------
(* The report of lines 130-134: one column, a list of its values. *)

\* the report without the placeholder row: an empty table for no issues
validation_report_no_placeholder(iss) ==
    [columns |-> <<"Validation_Issues">>, values |-> iss]

validation_report(iss) ==
    [columns |-> <<"Validation_Issues">>,
     values |-> IF iss # <<>> THEN iss ELSE <<"No issues found">>]

NoReport == [columns |-> <<>>, values |-> <<>>]

---------------------------------------------------------------------------
(* The tables the functions are called on: tables as read_excel returns    *)
(* them (pairwise distinct raw labels, RangeIndex, inferred dtypes).      *)

Label(s) == StrCell(s)

\* raw header cells of the tables that carry data
DataLabels ==
    {Label(<<"D", "a", "t", "e">>), Label(<<"d", "a", "t", "e", " ">>),
     Label(<<"a", " ", "b">>)}

\* raw header cells: text over a small alphabet, a number, and a few names
LabelAlphabet == {" ", "A", "a"}
AlphaLabels ==
    {Label(s) : s \in UNION {[1..k -> LabelAlphabet] : k \in 1..MaxLabelLen}}
RawLabels ==
    AlphaLabels \cup DataLabels
        \cup {Label(<<"a", "_", "b">>), Label(<<"1">>), NumCell(1)}

\* headers of one sheet: read_excel makes its labels pairwise distinct
Headers(labels, n) ==
    {h \in [1..n -> labels] : \A i, j \in 1..n : h[i] = h[j] => i = j}

CleanCells ==
    {StrCell(<<>>), StrCell(<<" ">>), StrCell(<<"a">>), StrCell(<<" ", "a">>),
     StrCell(<<"a", " ">>), NumCell(1), NumCell(2), NaN}

Shapes == {<<r, c>> \in (0..MaxRows) \X (1..MaxCols) : r * c <= MaxCells}

\* the sheets with these raw labels, shapes and cells
IsSheet(df, labels, shapes, cells) ==
    \E sh \in shapes :
        \E h \in Headers(labels, sh[2]) :
            \E rows \in [1..sh[1] -> [1..sh[2] -> cells]] :
                df = read_excel(h, rows)

LabelShapes == {<<0, c>> : c \in 1..MaxLabelCols}

\* the names a caller may require: columns of the tables and absent ones
ReqNames == {<<"d", "a", "t", "e">>, <<"a", "_", "b">>, <<"a", "m", "o", "u", "n", "t">>}
ReqLists == UNION {[1..k -> ReqNames] : k \in 0..MaxReq}

ValidateCells == {StrCell(<<>>), StrCell(<<"a">>), NaN}

---------------------------------------------------------------------------
(* The functions called on their own: each call is one step.               *)

ShellIdle ==
    /\ proceed = FALSE
    /\ selection = NoSelection
    /\ button_shown = FALSE
    /\ select_shown = FALSE
    /\ clicked = FALSE
    /\ report = NoReport
    /\ exc = ""

\* normalize_columns, clean_data and clean_data again on one table
InitClean ==
    /\ \/ IsSheet(uploaded_file, DataLabels, Shapes, CleanCells)
       \/ IsSheet(uploaded_file, RawLabels, LabelShapes, {NaN})
    /\ pc = "input"
    /\ raw_df = Undefined
    /\ required_columns = <<>>
    /\ issues = NoIssues
    /\ cleaned_df = NotCalled
    /\ again = NotCalled
    /\ ShellIdle

CallNormalize ==
    /\ pc = "input"
    /\ raw_df' = normalize_columns(uploaded_file)
    /\ pc' = "normalized"
    /\ UNCHANGED <<uploaded_file, proceed, selection, button_shown, select_shown,
                   clicked, required_columns, issues, cleaned_df, report, exc, again>>

CallClean ==
    /\ pc = "normalized"
    /\ cleaned_df' = clean_data(uploaded_file)
    /\ pc' = "cleaned"
    /\ UNCHANGED <<uploaded_file, proceed, selection, button_shown, select_shown,
                   clicked, raw_df, required_columns, issues, report, exc, again>>

CallCleanAgain ==
    /\ pc = "cleaned"
    /\ cleaned_df.exc = ""
    /\ again' = clean_data(cleaned_df.value)
    /\ pc' = "recleaned"
    /\ UNCHANGED <<uploaded_file, proceed, selection, button_shown, select_shown,
                   clicked, raw_df, required_columns, issues, cleaned_df, report, exc>>

NextClean == CallNormalize \/ CallClean \/ CallCleanAgain

SpecClean == InitClean /\ [][NextClean]_vars

\* validate_data on one normalized table and one required-column list
InitValidate ==
    /\ IsSheet(uploaded_file, DataLabels, Shapes, ValidateCells)
    /\ pc = "input"
    /\ raw_df = normalize_columns(uploaded_file)
    /\ required_columns \in ReqLists
    /\ issues = NoIssues
    /\ cleaned_df = NotCalled
    /\ again = NotCalled
    /\ ShellIdle

CallValidate ==
    /\ pc = "input"
    /\ issues' = validate_data(raw_df, required_columns)
    /\ pc' = "validated"
    /\ UNCHANGED <<uploaded_file, proceed, selection, button_shown, select_shown,
                   clicked, raw_df, required_columns, cleaned_df, report, exc, again>>

NextValidate == CallValidate

SpecValidate == InitValidate /\ [][NextValidate]_vars

---------------------------------------------------------------------------
(* The Streamlit script, lines 75-142.  Every user interaction runs the   *)
(* script from the top in a fresh namespace; the widgets' values and      *)
(* st.session_state outlive the run.  A widget a run does not render      *)
(* loses its kept value.                                                   *)

ShellCells == {StrCell(<<>>), StrCell(<<" ">>), NaN}
ShellShapes ==
    {<<r, c>> \in (0..ShellMaxRows) \X (1..ShellMaxCols) : r * c <= ShellMaxCells}

Init ==
    /\ uploaded_file = NoFile
    /\ proceed = FALSE
    /\ selection = NoSelection
    /\ button_shown = FALSE
    /\ select_shown = FALSE
    /\ pc = "idle"
    /\ clicked = FALSE
    /\ raw_df = Undefined
    /\ required_columns = <<>>
    /\ issues = NoIssues
    /\ cleaned_df = NotCalled
    /\ report = NoReport
    /\ exc = ""
    /\ again = NotCalled

\* a rerun starts: the script's names are unbound, nothing is rendered yet
StartRun(button) ==
    /\ pc = "idle"
    /\ pc' = "line83"
    /\ clicked' = button
    /\ button_shown' = FALSE
    /\ select_shown' = FALSE
    /\ raw_df' = Undefined
    /\ required_columns' = <<>>
    /\ issues' = NoIssues
    /\ cleaned_df' = NotCalled
    /\ report' = NoReport
    /\ exc' = ""
    /\ UNCHANGED <<proceed, again>>

\* the run ends, at the end of the script or by an exception: the
\* multiselect's value is dropped unless this run rendered it
EndRun(e) ==
    /\ pc' = "idle"
    /\ exc' = e
    /\ selection' = IF select_shown THEN selection ELSE NoSelection

\* the user puts a file into the uploader (line 78): a sheet, or a file
\* read_excel cannot decode
Upload ==
    /\ \/ IsSheet(uploaded_file', DataLabels, ShellShapes, ShellCells)
       \/ uploaded_file' = CorruptFile
    /\ StartRun(FALSE)
    /\ UNCHANGED selection

\* the user removes the file from the uploader
RemoveFile ==
    /\ uploaded_file # NoFile
    /\ uploaded_file' = NoFile
    /\ StartRun(FALSE)
    /\ UNCHANGED selection

\* the user clicks "Proceed with Cleaning & Validation" (line 89)
ClickProceed ==
    /\ button_shown
    /\ StartRun(TRUE)
    /\ UNCHANGED <<uploaded_file, selection>>

\* the sequences the multiselect can return: chosen options, each once
Choices(options) ==
    LET names == {options[i] : i \in 1..Len(options)}
    IN  UNION {{v \in [1..k -> names] : \A i, j \in 1..k : v[i] = v[j] => i = j} :
                 k \in 0..Cardinality(names)}

\* the user changes the required-column selection (line 97)
ChangeSelection ==
    /\ select_shown
    /\ \E v \in Choices(selection.options) :
          /\ v # selection.value
          /\ selection' = [selection EXCEPT !.value = v]
    /\ StartRun(FALSE)
    /\ UNCHANGED uploaded_file

\* any other interaction: the download button, "Rerun"
Rerun ==
    /\ StartRun(FALSE)
    /\ UNCHANGED <<uploaded_file, selection>>

\* lines 83-90 with proceed assigned the button's value on every run
Line83_proceed_is_button ==
    /\ pc = "line83"
    /\ IF uploaded_file = NoFile
       THEN /\ pc' = "line92"
            /\ UNCHANGED <<raw_df, button_shown, proceed, exc, selection>>
       ELSE IF uploaded_file = CorruptFile
       THEN /\ EndRun("read_excel")
            /\ UNCHANGED <<raw_df, button_shown, proceed>>
       ELSE /\ raw_df' = uploaded_file
            /\ button_shown' = TRUE
            /\ proceed' = clicked
            /\ pc' = "line92"
            /\ UNCHANGED <<exc, selection>>
    /\ UNCHANGED <<uploaded_file, select_shown, clicked, required_columns,
                   issues, cleaned_df, report, again>>

\* lines 83-90: with a file, read it, render the button and, if the button
\* was clicked, set the flag; read_excel raises on a file it cannot decode
Line83 ==
    /\ pc = "line83"
    /\ IF uploaded_file = NoFile
       THEN /\ pc' = "line92"
            /\ UNCHANGED <<raw_df, button_shown, proceed, exc, selection>>
       ELSE IF uploaded_file = CorruptFile
       THEN /\ EndRun("read_excel")
            /\ UNCHANGED <<raw_df, button_shown, proceed>>
       ELSE /\ raw_df' = uploaded_file
            /\ button_shown' = TRUE
            /\ proceed' = (proceed \/ clicked)
            /\ pc' = "line92"
            /\ UNCHANGED <<exc, selection>>
    /\ UNCHANGED <<uploaded_file, select_shown, clicked, required_columns,
                   issues, cleaned_df, report, again>>

\* line 92: the flag alone decides whether the pipeline runs
Line92 ==
    /\ pc = "line92"
    /\ IF proceed
       THEN /\ pc' = "normalize"
            /\ UNCHANGED <<exc, selection>>
       ELSE EndRun("")
    /\ UNCHANGED <<uploaded_file, proceed, button_shown, select_shown, clicked,
                   raw_df, required_columns, issues, cleaned_df, report, again>>

\* line 94: raw_df is unbound when this run read no file
Normalize ==
    /\ pc = "normalize"
    /\ IF raw_df = Undefined
       THEN /\ EndRun("NameError")
            /\ UNCHANGED raw_df
       ELSE /\ raw_df' = normalize_columns(raw_df)
            /\ pc' = "select"
            /\ UNCHANGED <<exc, selection>>
    /\ UNCHANGED <<uploaded_file, proceed, button_shown, select_shown, clicked,
                   required_columns, issues, cleaned_df, report, again>>

\* list(raw_df.columns), the labels as strings
column_names(df) == [c \in 1..Len(df.columns) |-> df.columns[c].s]

RECURSIVE default_columns(_, _)
default_columns(df, names) ==
    IF names = <<>> THEN <<>>
    ELSE (IF is_column(df, Head(names)) THEN <<Head(names)>> ELSE <<>>)
            \o default_columns(df, Tail(names))

\* lines 96-101: the multiselect returns its kept value when it is the
\* widget of the last run (the same options), and its default otherwise
Select ==
    /\ pc = "select"
    /\ LET options == column_names(raw_df)
           default == default_columns(raw_df,
                          <<(<<"d", "a", "t", "e">>), (<<"a", "m", "o", "u", "n", "t">>)>>)
           value == IF selection.options = options THEN selection.value
                    ELSE default
       IN  /\ selection' = [options |-> options, value |-> value]
           /\ required_columns' = value
    /\ select_shown' = TRUE
    /\ pc' = "validate"
    /\ UNCHANGED <<uploaded_file, proceed, button_shown, clicked, raw_df, issues,
                   cleaned_df, report, exc, again>>

\* the pipeline in the other order: the table is cleaned before it is validated
Validate_after_clean ==
    /\ pc = "validate"
    /\ issues' = IF clean_data(raw_df).exc = ""
                 THEN validate_data(clean_data(raw_df).value, required_columns)
                 ELSE Raised("AttributeError", <<>>)
    /\ IF issues'.exc = ""
       THEN /\ pc' = "clean"
            /\ UNCHANGED <<exc, selection>>
       ELSE EndRun(issues'.exc)
    /\ UNCHANGED <<uploaded_file, proceed, button_shown, select_shown, clicked,
                   raw_df, required_columns, cleaned_df, report, again>>

\* lines 106-113: validation of the normalized table, its issues shown
Validate ==
    /\ pc = "validate"
    /\ issues' = validate_data(raw_df, required_columns)
    /\ IF issues'.exc = ""
       THEN /\ pc' = "clean"
            /\ UNCHANGED <<exc, selection>>
       ELSE EndRun(issues'.exc)
    /\ UNCHANGED <<uploaded_file, proceed, button_shown, select_shown, clicked,
                   raw_df, required_columns, cleaned_df, report, again>>

\* lines 118-121: cleaning of the normalized table
Clean ==
    /\ pc = "clean"
    /\ cleaned_df' = clean_data(raw_df)
    /\ IF cleaned_df'.exc = ""
       THEN /\ pc' = "export"
            /\ UNCHANGED <<exc, selection>>
       ELSE EndRun(cleaned_df'.exc)
    /\ UNCHANGED <<uploaded_file, proceed, button_shown, select_shown, clicked,
                   raw_df, required_columns, issues, report, again>>

\* lines 126-142: the two sheets are written and the download offered
Export ==
    /\ pc = "export"
    /\ report' = validation_report(issues.value)
    /\ EndRun("")
    /\ UNCHANGED <<uploaded_file, proceed, button_shown, select_shown, clicked,
                   raw_df, required_columns, issues, cleaned_df, again>>

Next ==
    \/ Upload
    \/ RemoveFile
    \/ ClickProceed
    \/ ChangeSelection
    \/ Rerun
    \/ Line83
    \/ Line92
    \/ Normalize
    \/ Select
    \/ Validate
    \/ Clean
    \/ Export

Spec == Init /\ [][Next]_vars

---------------------------------------------------------------------------
(* Properties of clean_data and normalize_columns, under SpecClean.        *)

CleanReturned == pc \in {"cleaned", "recleaned"} /\ cleaned_df.exc = ""

\* the row of the input that row i of the output came from (by its index)
SourceRow(i) == uploaded_file.rows[cleaned_df.value.index[i] + 1]

OutRows == cleaned_df.value.rows
InRows == uploaded_file.rows

HasDuplicateRows(rows) ==
    \E i, j \in 1..Len(rows) : i < j /\ rows[i] = rows[j]

Distinct(seq) == \A i, j \in 1..Len(seq) : seq[i] = seq[j] => i = j

\* C1: clean_data leaves every non-string cell unchanged in type and value:
\* each surviving row holds, in every column, the non-string value its input
\* row held, also in a column that mixes strings and non-strings.
C1_NonStringCellsUnchanged ==
    CleanReturned =>
        \A i \in 1..Len(OutRows) : \A c \in 1..Len(uploaded_file.columns) :
            SourceRow(i)[c].k # "str" => OutRows[i][c] = SourceRow(i)[c]

\* C2 as stated: the output has at most the input's rows, and as many if and
\* only if the input held no duplicate rows.
C2_RowCountIffNoDuplicates ==
    CleanReturned =>
        /\ Len(OutRows) <= Len(InRows)
        /\ Len(OutRows) = Len(InRows) <=> ~HasDuplicateRows(InRows)

\* C2 as amended: the output has at most the input's rows, and an input that
\* holds duplicate rows loses rows: the counts are equal only if the input
\* held no duplicate rows.
C2_RowCountEqualOnlyIfNoDuplicates ==
    CleanReturned =>
        /\ Len(OutRows) <= Len(InRows)
        /\ HasDuplicateRows(InRows) => Len(OutRows) < Len(InRows)

\* an input with duplicate rows, cleaned to fewer rows but more than one
C2_Witness ==
    /\ CleanReturned
    /\ HasDuplicateRows(InRows)
    /\ 1 < Len(OutRows)
    /\ Len(OutRows) < Len(InRows)

\* a cell after stripping and empty-string-to-missing conversion, as the
\* contract of the cleaner states it: only strings are touched
ContractCell(cell) ==
    IF cell.k # "str" THEN cell
    ELSE IF strip(cell.s) = <<>> THEN NaN ELSE StrCell(strip(cell.s))

ContractRows ==
    [r \in 1..Len(InRows) |->
        [c \in 1..Len(uploaded_file.columns) |-> ContractCell(InRows[r][c])]]

C8_ColumnNamesUnique ==
    Distinct(uploaded_file.columns) =>
        /\ pc # "input" => Distinct(raw_df.columns)
        /\ CleanReturned => Distinct(cleaned_df.value.columns)

\* C9: clean_data applied to its own output returns that output: the same
\* column names in the same order, the same rows in the same order, the same
\* value in every cell.
C9_CleanIdempotent ==
    pc = "recleaned" => again = Returned(cleaned_df.value)

\* a second cleaning of an output that the first cleaning had to change:
\* a renamed column, a dropped row and a converted cell
C9_Witness ==
    /\ pc = "recleaned"
    /\ again.exc = ""
    /\ cleaned_df.value.columns # uploaded_file.columns
    /\ Len(OutRows) < Len(InRows)
    /\ \E i \in 1..Len(OutRows) : OutRows[i] # SourceRow(i)

---------------------------------------------------------------------------
(* Properties of validate_data, under SpecValidate.                        *)

\* the cells of the columns called name
NamedCells(df, name) ==
    {<<r, c>> \in (1..Len(df.rows)) \X (1..Len(df.columns)) :
        df.columns[c] = StrCell(name)}

ExpectedColumnIssue(df, name) ==
    LET cells == NamedCells(df, name)
        n == Cardinality({x \in cells : df.rows[x[1]][x[2]].k \in {"nan", "NA"}})
    IN  IF \A c \in 1..Len(df.columns) : df.columns[c] # StrCell(name)
        THEN <<"Missing required column: " \o text(name)>>
        ELSE IF n > 0
        THEN <<"Column '" \o text(name) \o "' has " \o ToString(n)
                 \o " missing values">>
        ELSE <<>>

RECURSIVE ExpectedColumnIssues(_, _, _)
ExpectedColumnIssues(df, req, i) ==
    IF i > Len(req) THEN <<>>
    ELSE ExpectedColumnIssue(df, req[i]) \o ExpectedColumnIssues(df, req, i + 1)

ExpectedIssues(df, req) ==
    LET d == Cardinality({r \in 1..Len(df.rows) :
                            \E q \in 1..(r - 1) : df.rows[q] = df.rows[r]})
    IN  (IF d > 0 THEN <<ToString(d) \o " duplicate rows found">> ELSE <<>>)
            \o ExpectedColumnIssues(df, req, 1)

\* C3: validate_data returns exactly: the duplicate issue if and only if the
\* duplicate count is positive, then for each required name in the caller's
\* order the missing-column issue or, if the column has missing cells, the
\* missing-values issue; nothing else.
C3_IssueSequence ==
    pc = "validated" =>
        issues = Returned(ExpectedIssues(raw_df, required_columns))

\* the same, for the tables whose column names are pairwise distinct
ValidateOnDistinctNames ==
    pc = "validated" /\ Distinct(raw_df.columns) =>
        issues = Returned(ExpectedIssues(raw_df, required_columns))

---------------------------------------------------------------------------
(* Properties of the script, under Spec.                                   *)

\* a run that reached the end of the script: both sheets were written
Exported == pc = "idle" /\ report # NoReport

Blank(cell) == cell.k = "str" /\ strip(cell.s) = <<>>

\* the column required by name holds a blank string in the uploaded sheet
BlankRequired ==
    \E i \in 1..Len(required_columns) : \E c \in 1..Len(raw_df.columns) :
        /\ raw_df.columns[c] = StrCell(required_columns[i])
        /\ \E r \in 1..Len(uploaded_file.rows) : Blank(uploaded_file.rows[r][c])

\* C5: the steps of a run are normalize, validate, clean: the issues shown
\* and exported are those of the normalized table before cleaning (a blank
\* string is not a missing value, rows equal only after stripping are not
\* duplicates), while the exported cleaned table holds no blank string.
C5_ValidatedBeforeCleaned ==
    /\ pc = "validate" =>
          raw_df = normalize_columns(uploaded_file) /\ cleaned_df = NotCalled
    /\ pc = "clean" => issues.exc = "" /\ cleaned_df = NotCalled
    /\ pc = "export" \/ Exported =>
          /\ issues = Returned(ExpectedIssues(normalize_columns(uploaded_file),
                                              required_columns))
          /\ cleaned_df.exc = ""
          /\ \A r \in 1..Len(cleaned_df.value.rows) :
                \A c \in 1..Len(cleaned_df.value.columns) :
                    /\ ~Blank(cleaned_df.value.rows[r][c])
                    /\ Blank(uploaded_file.rows[cleaned_df.value.index[r] + 1][c])
                          => cleaned_df.value.rows[r][c] = PdNA

\* an export whose required column holds blank strings, none of them
\* reported, which cleaning turned into missing values and merged
C5_Witness ==
    /\ Exported
    /\ BlankRequired
    /\ issues.value = <<>>
    /\ Len(cleaned_df.value.rows) < Len(uploaded_file.rows)
    /\ \E r \in 1..Len(cleaned_df.value.rows) : cleaned_df.value.rows[r][1] = PdNA

\* C6 as stated: the pipeline runs once per confirmation, never in a run in
\* which the button was not clicked.
C6_RunsOnlyOnConfirmation == pc = "normalize" => clicked

PipelineSteps == {"normalize", "select", "validate", "clean", "export"}

\* C6 as amended: the pipeline runs in every run that reaches line 92 with
\* the flag set; only a click sets the flag and nothing clears it, so the
\* pipeline runs in the confirming run and in every later run, and in none
\* before the first confirmation.
C6_RunsWhileFlagSet ==
    [][/\ pc' \in PipelineSteps => proceed'
       /\ proceed => proceed'
       /\ ~proceed /\ proceed' => clicked /\ pc = "line83"
       /\ pc = "line92" /\ proceed => pc' = "normalize"]_vars

\* the pipeline starting in a run in which the button was not clicked
C6_Witness == pc = "normalize" /\ proceed /\ ~clicked

\* C7: the report has the single column "Validation_Issues"; for no issues
\* it has exactly one row, "No issues found"; otherwise its rows are the
\* issues, in their order.
C7_ReportRows ==
    Exported =>
        /\ report.columns = <<"Validation_Issues">>
        /\ issues.value = <<>> => report.values = <<"No issues found">>
        /\ issues.value # <<>> => report.values = issues.value

\* a report of two issues
C7_Witness == Exported /\ Len(issues.value) = 2 /\ Len(report.values) = 2

\* C10: the pipeline starts only in a run that read an uploaded table: the
\* flag is never true with no file uploaded and raw_df unbound at line 94.
C10_PipelineHasTable ==
    pc = "normalize" => uploaded_file.tag = "DataFrame" /\ raw_df # Undefined

=============================================================================
